---------------------------- MODULE Spec2Model ----------------------------
(***************************************************************************)
(* One call session of the Twilio Media Streams <-> OpenAI Realtime bridge *)
(* (src/server.js, wss.on("connection") closure).  A state is the value of *)
(* the closure's variables plus the ready state of every speech-endpoint   *)
(* socket the session opened.  Each action is one event handler run to     *)
(* completion (Node's event loop never interleaves two handlers).          *)
(*                                                                         *)
(* Audio bytes are not modelled by value in the session model: a byte of   *)
(* outbound audio is identified by its position in the stream of enqueued  *)
(* bytes, so a chunk or frame is the interval [start, start+len).          *)
(*                                                                         *)
(* The messages a handler sends are not kept in the state: they are given, *)
(* for the state the handler starts in and its input, by the operators     *)
(* mediaAppends and mediaCommits (speech endpoint) and by the frames and   *)
(* failed fields of sendOutboundFrames (telephony side).                   *)
(*                                                                         *)
(* Four specifications:                                                    *)
(*   Spec         one call session, MaxConns speech sockets                *)
(*   SpecRestart  the same with one start frame more                       *)
(*   SpecAudio    the codec, resampler and transcoder functions, by value  *)
(*   SpecIso      the closures of two connections, events interleaved      *)
(* The variables of the other specifications stay at their idle values.    *)
(***************************************************************************)
EXTENDS Integers, Sequences, FiniteSets, TLC

(* ------------------------------ bounds --------------------------------- *)
\* telephony media frames handled in one behaviour
MaxMedia == 3
\* outbound chunks enqueued in one behaviour
MaxChunks == 2
\* speech-endpoint sockets opened in one behaviour (start frames with a key)
MaxConns == 1

(* ------------------------- program constants --------------------------- *)
\* const frameSize = 160
frameSize == 160
\* appendedBytes >= 7200
CommitThreshold == 7200

(* ------------------------------ inputs --------------------------------- *)
\* decoded length (mu-law bytes) of a media payload
PayloadLens == {0, 600}
\* decoded length (PCM16 bytes) of an audio delta; 0 also stands for a delta
\* without a usable audio field, 601 is a length that is no whole number of
\* samples
DeltaLens == {0, 600, 601, 1920}
\* msg.start.streamSid; "" is the absent (null) identifier
StreamSids == {"", "MZ1"}
\* msg.type of a speech-endpoint message, as far as the handler tells them apart
OpenaiTypes == {"delta", "speech_started", "speech_stopped", "committed", "other"}

VARIABLES
    hasApiKey,            \* OPENAI_API_KEY is configured
    crashed,              \* a handler threw outside every try block
    wsOpen,               \* the telephony socket still delivers events
    mediaCount,
    appendedBytes,
    openaiWs,             \* 0 is null, otherwise an index into conns
    conns,                \* ready state of every speech socket, "NONE" if not created
    twilioStreamSid,
    speechActive,
    pendingCommit,
    outboundQueue,        \* sequence of chunks [start, len]
    outboundQueuedBytes,
    \* ---- observation only (never read by the handlers) ----
    twilioSent,           \* every frame delivered to the telephony side, in order
    enqueuedBytes,        \* number of bytes enqueued so far
    chunkCount,           \* chunks enqueued so far
    stopped,              \* a stop frame or the socket closure has been handled
    scen,                 \* progress of the speech_started .. speech_stopped scenario
    \* ---- the transcoder run on its own (SpecAudio) ----
    stage,                \* which buffer was computed last
    origin,               \* which buffer was the input
    mulawBuffer,          \* mu-law bytes of a telephony payload
    pcm8k,                \* 8 kHz samples
    pcm24k,               \* 24 kHz samples
    mulaw,                \* mu-law bytes for the telephony side
    \* ---- two call sessions side by side (SpecIso) ----
    closures,             \* the closure variables of every connection
    alone,                \* the same, had each connection received its events alone
    isoEvents             \* events handled so far

callVars == <<hasApiKey, crashed, wsOpen, mediaCount, appendedBytes, openaiWs, conns,
              twilioStreamSid, speechActive, pendingCommit, outboundQueue,
              outboundQueuedBytes, twilioSent, enqueuedBytes, chunkCount,
              stopped, scen>>

audioVars == <<stage, origin, mulawBuffer, pcm8k, pcm24k, mulaw>>

isoVars == <<closures, alone, isoEvents>>

vars == <<callVars, audioVars, isoVars>>

sessionVars == <<mediaCount, appendedBytes, openaiWs, twilioStreamSid,
                 speechActive, pendingCommit, outboundQueue, outboundQueuedBytes>>

(* ------------------------------ helpers -------------------------------- *)
\* one socket more than MaxConns exists for the behaviours with a repeated
\* start frame (SpecRestart)
ConnIds == 1..(MaxConns + 1)

Min(a, b) == IF a <= b THEN a ELSE b

RECURSIVE SumLen(_)
SumLen(q) == IF q = <<>> THEN 0 ELSE Head(q).len + SumLen(Tail(q))

CeilDiv(n, d) == (n + d - 1) \div d

\* byte length of pcm24kBuffer for a mu-law buffer of n bytes:
\* one sample per byte, three output samples per sample, two bytes per sample
Pcm24kByteLength(n) == (n * 3) * 2

\* length of the mu-law buffer produced from a delta of n PCM16 bytes:
\* n/2 samples (the typed array truncates), one kept out of three
MulawLength(n) == (n \div 2) \div 3

\* openaiWs && openaiWs.readyState === WebSocket.OPEN
OpenaiIsOpen == openaiWs # 0 /\ conns[openaiWs] = "OPEN"


(* ------------------------- the outbound pacer --------------------------- *)
NoDrain(q, qb) == [queue |-> q, bytes |-> qb, frames |-> <<>>, failed |-> <<>>]

\* enqueueOutboundMulaw(buf), on the pair (outboundQueue, outboundQueuedBytes)
enqueueOutboundMulaw(q, qb, buf) ==
    IF buf.len = 0
    THEN [queue |-> q, bytes |-> qb]
    ELSE [queue |-> Append(q, buf), bytes |-> qb + buf.len]

\* the frame cut from the head chunk
takeFrameWhole(head) == head
takeFrame(head) ==
    IF head.len <= frameSize
    THEN head
    ELSE [start |-> head.start, len |-> frameSize]

\* the queue once the frame is cut from its head chunk
dropFrame(q) ==
    LET head == Head(q) IN
    IF head.len <= frameSize
    THEN Tail(q)
    ELSE <<[start |-> head.start + frameSize, len |-> head.len - frameSize]>> \o Tail(q)

\* outboundQueuedBytes -= frame.length
queuedAfterShiftOnly(qb, head, frame) == IF head.len <= frameSize THEN qb ELSE qb - frame.len
queuedAfter(qb, head, frame) == qb - frame.len

\* the loop condition of sendOutboundFrames
loopIgnoringMaxFrames(framesSent, maxFrames, q) == Len(q) > 0
loopContinues(framesSent, maxFrames, q) == framesSent < maxFrames /\ Len(q) > 0

\* The while loop of sendOutboundFrames.  failAt is the number of the
\* ws.send call that throws (0: none does); the catch clause leaves the loop.
RECURSIVE drainLoop(_, _, _, _, _, _, _)
drainLoop(q, qb, framesSent, maxFrames, attempt, failAt, acc) ==
    IF ~loopContinues(framesSent, maxFrames, q)
    THEN [queue |-> q, bytes |-> qb, frames |-> acc, failed |-> <<>>]
    ELSE LET head == Head(q) IN
         IF head.len = 0
         THEN drainLoop(Tail(q), qb, framesSent, maxFrames, attempt, failAt, acc)
         ELSE LET frame == takeFrame(head)
                  q2 == dropFrame(q)
                  qb2 == queuedAfter(qb, head, frame)
              IN IF attempt = failAt
                 THEN [queue |-> q2, bytes |-> qb2, frames |-> acc,
                       failed |-> <<frame>>]
                 ELSE drainLoop(q2, qb2, framesSent + 1, maxFrames,
                                attempt + 1, failAt, Append(acc, frame))

\* sendOutboundFrames(maxFrames): the queue and counter it leaves, the frames
\* it sent and the frame whose send threw
sendOutboundFrames(q, qb, sid, maxFrames, failAt) ==
    IF sid = ""
    THEN NoDrain(q, qb)
    ELSE drainLoop(q, qb, 0, maxFrames, 1, failAt, <<>>)

(* --------------------- the voice-activity counters ---------------------- *)
VadState(sa, pc, ab) == [speechActive |-> sa, pendingCommit |-> pc, appendedBytes |-> ab]

\* the three VAD branches of openaiWs.on("message")
vadStartKeepsCount(type, sa, pc, ab) ==
    CASE type = "speech_started" -> VadState(TRUE, FALSE, ab)
      [] type = "speech_stopped" -> VadState(FALSE, TRUE, ab)
      [] type = "committed"      -> VadState(sa, FALSE, 0)
      [] OTHER                   -> VadState(sa, pc, ab)
vadAckKeepsPending(type, sa, pc, ab) ==
    CASE type = "speech_started" -> VadState(TRUE, FALSE, 0)
      [] type = "speech_stopped" -> VadState(FALSE, TRUE, ab)
      [] type = "committed"      -> VadState(sa, pc, 0)
      [] OTHER                   -> VadState(sa, pc, ab)
vadStopKeepsActive(type, sa, pc, ab) ==
    CASE type = "speech_started" -> VadState(TRUE, FALSE, 0)
      [] type = "speech_stopped" -> VadState(sa, TRUE, ab)
      [] type = "committed"      -> VadState(sa, FALSE, 0)
      [] OTHER                   -> VadState(sa, pc, ab)
vadSignal(type, sa, pc, ab) ==
    CASE type = "speech_started" -> VadState(TRUE, FALSE, 0)
      [] type = "speech_stopped" -> VadState(FALSE, TRUE, ab)
      [] type = "committed"      -> VadState(sa, FALSE, 0)
      [] OTHER                   -> VadState(sa, pc, ab)

\* if (speechActive || pendingCommit) appendedBytes += pcm24kBuffer.length
countAlways(sa, pc, ab, n) == ab + n
countAppended(sa, pc, ab, n) == IF sa \/ pc THEN ab + n ELSE ab

\* const hasEnoughAudio = appendedBytes >= 7200
hasEnoughAudioHalf(ab) == 2 * ab >= CommitThreshold
hasEnoughAudio(ab) == ab >= CommitThreshold

\* the forwarding part of the media branch, entered with the speech socket
\* open and a payload of n mu-law bytes: the counters it leaves and whether it
\* sent a commit after the append
forwardAudio(sa, pc, ab, n) ==
    LET counted == countAppended(sa, pc, ab, Pcm24kByteLength(n))
        commit == pc /\ hasEnoughAudio(counted)
    IN [vad |-> IF commit THEN VadState(sa, FALSE, 0) ELSE VadState(sa, pc, counted),
        commit |-> commit]


(* ----------------------- speech-endpoint sockets ------------------------ *)
\* WebSocket.close(): starts the closing handshake of an open socket, during
\* which messages still arrive; aborts the handshake of a connecting socket,
\* which then never opens and delivers nothing ("CLOSED" here: readyState is
\* CLOSING and then CLOSED, and the session only ever tests for OPEN); does
\* nothing to a socket that is closing or closed
closeSocket(state) ==
    CASE state = "OPEN"       -> "CLOSING"
      [] state = "CONNECTING" -> "CLOSED"
      [] OTHER                -> state

\* if (openaiWs) openaiWs.close()
closeOpenai == IF openaiWs = 0 THEN conns
               ELSE [conns EXCEPT ![openaiWs] = closeSocket(conns[openaiWs])]

Created == {c \in ConnIds : conns[c] # "NONE"}

(* ------------------------ observation variables ------------------------- *)
\* The scenario speech_started, audio units, speech_stopped, audio units,
\* with the speech socket open throughout.  phase: "A" after speech_started,
\* "B0" after the speech_stopped that follows, "B1" once a commit was sent
\* after it, "none" outside the scenario.  bytes: the transcoded bytes of the
\* audio units since speech_started, counted up to CommitThreshold and until
\* the commit.
ScenNone == [phase |-> "none", bytes |-> 0]

ScenAfterVad(type) ==
    CASE type = "speech_started" -> [phase |-> "A", bytes |-> 0]
      [] type = "speech_stopped" -> IF scen.phase = "A"
                                    THEN [scen EXCEPT !.phase = "B0"]
                                    ELSE ScenNone
      [] type = "committed"      -> ScenNone
      [] OTHER                   -> scen

ScenAfterMedia(open, present, n, commit) ==
    IF scen.phase = "none" THEN scen
    ELSE IF ~open THEN ScenNone
    ELSE IF ~present \/ scen.phase = "B1" THEN scen
    ELSE [phase |-> IF commit THEN "B1" ELSE scen.phase,
          bytes |-> Min(scen.bytes + Pcm24kByteLength(n), CommitThreshold)]

(* ============================ the transcoder ============================ *)
(* ------------------------------ bounds --------------------------------- *)
\* length of the telephony payloads tried byte by byte
MaxFrameLen == 2
\* length of the sample sequences tried
MaxSamples == 4

(* ------------------------------ inputs --------------------------------- *)
SeqsUpTo(S, n) == UNION {[1..k -> S] : k \in 0..n}

Bytes == 0..255

\* a frame of 160 bytes 0xFF
SilenceFrame == [k \in 1..frameSize |-> 255]

\* payloads: every single byte, short payloads of mixed bytes, the silence frame
InputFrames ==
    {<<b>> : b \in Bytes} \cup SeqsUpTo({0, 127, 128, 255}, MaxFrameLen) \cup {SilenceFrame}

\* 16-bit samples, the extremes included
Samples == {-32768, -1, 0, 1000, 32767}

SampleSeqs == SeqsUpTo(Samples, MaxSamples)

(* --------------------------- integer operations ------------------------- *)
\* x >> k on a 32-bit integer (\div rounds down, as the arithmetic shift does)
Shr(x, k) == x \div (2 ^ k)

\* bit k of x in two's complement
Bit(x, k) == Shr(x, k) % 2

\* a | b for a, b >= 0
RECURSIVE BitOr(_, _)
BitOr(a, b) ==
    IF a = 0 THEN b
    ELSE IF b = 0 THEN a
    ELSE (IF a % 2 = 1 \/ b % 2 = 1 THEN 1 ELSE 0) + 2 * BitOr(a \div 2, b \div 2)

\* the value an Int16Array element holds after x is stored in it
ToInt16(x) == ((x + 32768) % 65536) - 32768

\* the value a Uint8Array element holds after x is stored in it
ToUint8(x) == x % 256

(* -------------------------------- codec --------------------------------- *)
\* MULAW_DECODE_TABLE[i], the loop body that fills it
decodeEntry(i) ==
    LET sign     == IF Bit(i, 7) = 1 THEN -1 ELSE 1
        exponent == Shr(i, 4) % 8
        mantissa == (i % 16) + 16
        value    == sign * ((mantissa * (2 ^ (exponent + 2))) - (33 * 4))
    IN ToInt16(value)

MULAW_DECODE_TABLE == [i \in Bytes |-> decodeEntry(i)]

\* while (exp > 1) { exponent++; exp >>= 1; }
RECURSIVE exponentLoop(_, _)
exponentLoop(exp, exponent) ==
    IF exp > 1 THEN exponentLoop(Shr(exp, 1), exponent + 1) ELSE exponent

\* the body of the encoding loop of convertPcm24kToMulaw, for pcm8k[i] = s
encodeSample(s) ==
    LET sign     == Bit(Shr(s, 8), 7) * 128
        magn     == IF sign # 0 THEN -s ELSE s
        sample   == magn + 132
        exp      == Shr(sample, 7)
        exponent == IF exp > 0 THEN exponentLoop(exp, 1) ELSE 0
        mantissa == Shr(sample, exponent + 3) % 16
    IN ToUint8(-(BitOr(BitOr(sign, exponent * 16), mantissa)) - 1)

(* ------------------------------ resampler ------------------------------- *)
\* resample8kTo24k(pcm8k): pcm24k[i*3] = pcm24k[i*3+1] = pcm24k[i*3+2] = pcm8k[i]
resample8kTo24k(p) == [j \in 1..(Len(p) * 3) |-> p[((j - 1) \div 3) + 1]]

\* the index of pcm24k read for pcm8k[i] (both counted from 0)
keptIndexNext(i) == i * 3 + 1
keptIndex(i) == i * 3

\* the first loop of convertPcm24kToMulaw: pcm8k[i] = pcm24k[i * 3] for
\* i < floor(pcm24k.length / 3)
downsampleBy3(p) == [i \in 1..(Len(p) \div 3) |-> p[keptIndex(i - 1) + 1]]

(* ------------------------------ transcoder ------------------------------ *)
\* the pcm8k array of convertMulawToPcm24k
decodeBuffer(buf) == [i \in 1..Len(buf) |-> MULAW_DECODE_TABLE[buf[i] % 256]]

convertMulawToPcm24k(buf) == resample8kTo24k(decodeBuffer(buf))

convertPcm24kToMulaw(p) ==
    LET down == downsampleBy3(p) IN [i \in 1..Len(down) |-> encodeSample(down[i])]

\* no buffer is being converted
AudioIdle ==
    /\ stage = "idle"
    /\ origin = "none"
    /\ mulawBuffer = <<>>
    /\ pcm8k = <<>>
    /\ pcm24k = <<>>
    /\ mulaw = <<>>

(* ====================== two connections side by side ==================== *)
\* events handled in one behaviour, both connections together
MaxIsoEvents == 4

\* the two telephony connections
Sessions == {1, 2}

\* The state of a connection is the set of variables declared with let inside
\* the callback of wss.on("connection"): every call of the callback creates
\* its own, and the handlers it registers refer to these and to nothing that
\* is assigned outside it.  closureOf(s): the variables the handlers
\* registered by connection s read and write
closureShared(s) == 1
closureOf(s) == s

\* the closure of connection s once its start frame is handled and its speech
\* socket is open; enqueued counts the bytes enqueued so far (observation)
IsoStarted(s) ==
    [mediaCount |-> 0, appendedBytes |-> 0,
     twilioStreamSid |-> IF s = 1 THEN "MZ1" ELSE "MZ2",
     speechActive |-> FALSE, pendingCommit |-> FALSE,
     outboundQueue |-> <<>>, outboundQueuedBytes |-> 0, enqueued |-> 0]

\* the media branch on closure r (speech socket open, payload of n bytes)
isoMedia(r, n, fail) ==
    LET f == forwardAudio(r.speechActive, r.pendingCommit, r.appendedBytes, n)
        d == sendOutboundFrames(r.outboundQueue, r.outboundQueuedBytes,
                                r.twilioStreamSid, 1, IF fail THEN 1 ELSE 0)
    IN [r EXCEPT !.mediaCount = @ + 1,
                 !.speechActive = f.vad.speechActive,
                 !.pendingCommit = f.vad.pendingCommit,
                 !.appendedBytes = f.vad.appendedBytes,
                 !.outboundQueue = d.queue,
                 !.outboundQueuedBytes = d.bytes]

\* what the media branch sends: whether a commit follows the append, and the
\* frames for the telephony side
isoMediaOutput(r, n, fail) ==
    [commit |-> forwardAudio(r.speechActive, r.pendingCommit, r.appendedBytes, n).commit,
     frames |-> sendOutboundFrames(r.outboundQueue, r.outboundQueuedBytes,
                                   r.twilioStreamSid, 1, IF fail THEN 1 ELSE 0).frames]

\* the VAD branches of the speech-endpoint handler on closure r
isoSignal(r, type) ==
    LET v == vadSignal(type, r.speechActive, r.pendingCommit, r.appendedBytes)
    IN [r EXCEPT !.speechActive = v.speechActive,
                 !.pendingCommit = v.pendingCommit,
                 !.appendedBytes = v.appendedBytes]

\* the audio delta branch of the speech-endpoint handler on closure r
isoDelta(r, n) ==
    LET buf == [start |-> r.enqueued, len |-> MulawLength(n)]
        e == enqueueOutboundMulaw(r.outboundQueue, r.outboundQueuedBytes, buf)
    IN [r EXCEPT !.outboundQueue = e.queue,
                 !.outboundQueuedBytes = e.bytes,
                 !.enqueued = @ + buf.len]

\* no connection is being followed
IsoIdle ==
    /\ closures = <<>>
    /\ alone = <<>>
    /\ isoEvents = 0

(* ------------------------------- Init ----------------------------------- *)
\* the call session after construction
CallInit ==
    /\ hasApiKey \in BOOLEAN
    /\ crashed = FALSE
    /\ wsOpen = TRUE
    /\ mediaCount = 0
    /\ appendedBytes = 0
    /\ openaiWs = 0
    /\ conns = [c \in ConnIds |-> "NONE"]
    /\ twilioStreamSid = ""
    /\ speechActive = FALSE
    /\ pendingCommit = FALSE
    /\ outboundQueue = <<>>
    /\ outboundQueuedBytes = 0
    /\ twilioSent = <<>>
    /\ enqueuedBytes = 0
    /\ chunkCount = 0
    /\ stopped = FALSE
    /\ scen = ScenNone

Init == CallInit /\ AudioIdle /\ IsoIdle

(* ------------------------ telephony handlers ---------------------------- *)
\* ws.on("message"), msg.event === "start": records the stream identifier
\* and calls connectToOpenAI, which returns early without an API key and
\* otherwise stores a new connecting socket in openaiWs, whatever openaiWs
\* held.  limit: the sockets one behaviour may open
startFrame(sid, limit) ==
    /\ ~crashed /\ wsOpen
    /\ hasApiKey => Cardinality(Created) < limit
    /\ twilioStreamSid' = sid
    /\ IF hasApiKey
       THEN LET c == Cardinality(Created) + 1 IN
            /\ conns' = [conns EXCEPT ![c] = "CONNECTING"]
            /\ openaiWs' = c
       ELSE UNCHANGED <<conns, openaiWs>>
    /\ scen' = ScenNone
    /\ UNCHANGED <<audioVars, isoVars, hasApiKey, crashed, wsOpen, mediaCount,
                   appendedBytes, speechActive, pendingCommit, outboundQueue,
                   outboundQueuedBytes, twilioSent, enqueuedBytes, chunkCount, stopped>>

Start(sid) == startFrame(sid, MaxConns)

\* the media branch forwards the payload: the speech socket is open and
\* msg.media.payload is a non-empty string
mediaForwardsAnyState(present) == present
mediaForwards(present) == OpenaiIsOpen /\ present

\* the media branch sends input_audio_buffer.append
mediaAppends(present, n) == mediaForwards(present)

\* the media branch sends input_audio_buffer.commit
mediaCommits(present, n) ==
    /\ mediaForwards(present)
    /\ forwardAudio(speechActive, pendingCommit, appendedBytes, n).commit

\* the call sendOutboundFrames(1) that ends the media branch
mediaDrain(fail) ==
    sendOutboundFrames(outboundQueue, outboundQueuedBytes, twilioStreamSid, 1,
                       IF fail THEN 1 ELSE 0)

\* ws.on("message"), msg.event === "media".  present: msg.media.payload is a
\* non-empty string; n: the bytes it decodes to; fail: ws.send throws
Media(present, n, fail) ==
    /\ ~crashed /\ wsOpen
    /\ mediaCount < MaxMedia
    /\ present \/ n = 0
    /\ mediaCount' = mediaCount + 1
    /\ LET f == forwardAudio(speechActive, pendingCommit, appendedBytes, n)
           d == mediaDrain(fail)
       IN /\ IF mediaForwards(present)
             THEN /\ speechActive' = f.vad.speechActive
                  /\ pendingCommit' = f.vad.pendingCommit
                  /\ appendedBytes' = f.vad.appendedBytes
             ELSE UNCHANGED <<speechActive, pendingCommit, appendedBytes>>
          /\ outboundQueue' = d.queue
          /\ outboundQueuedBytes' = d.bytes
          /\ twilioSent' = twilioSent \o d.frames
          /\ scen' = ScenAfterMedia(OpenaiIsOpen, present, n, mediaCommits(present, n))
    /\ UNCHANGED <<audioVars, isoVars, hasApiKey, crashed, wsOpen, openaiWs, conns, twilioStreamSid,
                   enqueuedBytes, chunkCount, stopped>>

\* ws.on("message"), msg.event === "stop"
Stop ==
    /\ ~crashed /\ wsOpen
    /\ conns' = closeOpenai
    /\ stopped' = TRUE
    /\ scen' = ScenNone
    /\ UNCHANGED <<audioVars, isoVars, hasApiKey, crashed, wsOpen, sessionVars, twilioSent,
                   enqueuedBytes, chunkCount>>

\* ws.on("message") with any other event, or with text that is not JSON
TelephonyOther ==
    /\ ~crashed /\ wsOpen
    /\ UNCHANGED vars

\* ws.on("close")
WsClose ==
    /\ ~crashed /\ wsOpen
    /\ wsOpen' = FALSE
    /\ conns' = closeOpenai
    /\ stopped' = TRUE
    /\ scen' = ScenNone
    /\ UNCHANGED <<audioVars, isoVars, hasApiKey, crashed, sessionVars, twilioSent, enqueuedBytes,
                   chunkCount>>

(* --------------------- speech-endpoint handlers ------------------------- *)
\* openaiWs.on("open") of socket c: sends session.update through the
\* variable openaiWs, which names another socket after a second start frame.
\* WebSocket.send throws on a connecting socket; on a closing or closed one
\* it throws or drops the message, depending on the library version (throws).
\* Nothing catches the throw.
OpenaiOpen(c, throws) ==
    /\ ~crashed
    /\ conns[c] = "CONNECTING"
    /\ conns' = [conns EXCEPT ![c] = "OPEN"]
    /\ LET target == conns'[openaiWs]
       IN /\ target = "OPEN" => ~throws
          /\ target = "CONNECTING" => throws
          /\ crashed' = throws
    /\ UNCHANGED <<audioVars, isoVars, hasApiKey, wsOpen, sessionVars, twilioSent, enqueuedBytes,
                   chunkCount, stopped, scen>>

\* socket c reaches CLOSED: the handshake failed, the peer closed, or the
\* closing handshake finished; the error and close handlers only log
OpenaiClosed(c) ==
    /\ ~crashed
    /\ conns[c] \in {"CONNECTING", "OPEN", "CLOSING"}
    /\ conns' = [conns EXCEPT ![c] = "CLOSED"]
    /\ scen' = IF c = openaiWs THEN ScenNone ELSE scen
    /\ UNCHANGED <<audioVars, isoVars, hasApiKey, crashed, wsOpen, sessionVars, twilioSent, enqueuedBytes,
                   chunkCount, stopped>>

\* openaiWs.on("message") of socket c, an audio delta whose audio field
\* decodes to n bytes (n = 0 also covers a delta without a usable field)
OpenaiDelta(c, n) ==
    /\ ~crashed
    /\ conns[c] \in {"OPEN", "CLOSING"}
    /\ chunkCount < MaxChunks
    /\ LET buf == [start |-> enqueuedBytes, len |-> MulawLength(n)]
           e == enqueueOutboundMulaw(outboundQueue, outboundQueuedBytes, buf)
           pushed == e.queue # outboundQueue
       IN /\ outboundQueue' = e.queue
          /\ outboundQueuedBytes' = e.bytes
          /\ enqueuedBytes' = IF pushed THEN enqueuedBytes + buf.len ELSE enqueuedBytes
          /\ chunkCount' = IF pushed THEN chunkCount + 1 ELSE chunkCount
    /\ UNCHANGED <<audioVars, isoVars, hasApiKey, crashed, wsOpen, mediaCount, appendedBytes, openaiWs,
                   conns, twilioStreamSid, speechActive, pendingCommit, twilioSent,
                   stopped, scen>>

\* openaiWs.on("message") of socket c, any other message type
OpenaiSignal(c, type) ==
    /\ ~crashed
    /\ conns[c] \in {"OPEN", "CLOSING"}
    /\ LET v == vadSignal(type, speechActive, pendingCommit, appendedBytes)
       IN /\ speechActive' = v.speechActive
          /\ pendingCommit' = v.pendingCommit
          /\ appendedBytes' = v.appendedBytes
    /\ scen' = ScenAfterVad(type)
    /\ UNCHANGED <<audioVars, isoVars, hasApiKey, crashed, wsOpen, mediaCount, openaiWs, conns,
                   twilioStreamSid, outboundQueue, outboundQueuedBytes, twilioSent,
                   enqueuedBytes, chunkCount, stopped>>

Next ==
    \/ \E sid \in StreamSids : Start(sid)
    \/ \E present \in BOOLEAN, n \in PayloadLens, fail \in BOOLEAN : Media(present, n, fail)
    \/ Stop
    \/ TelephonyOther
    \/ WsClose
    \/ \E c \in ConnIds, throws \in BOOLEAN : OpenaiOpen(c, throws)
    \/ \E c \in ConnIds : OpenaiClosed(c)
    \/ \E c \in ConnIds, n \in DeltaLens : OpenaiDelta(c, n)
    \/ \E c \in ConnIds, type \in OpenaiTypes \ {"delta"} : OpenaiSignal(c, type)

Spec == Init /\ [][Next]_vars

(* ------------- the call session with a repeated start frame ------------- *)
\* a start frame, also when the session has opened MaxConns sockets already
Restart(sid) == startFrame(sid, MaxConns + 1)

NextRestart == Next \/ \E sid \in StreamSids : Restart(sid)

SpecRestart == Init /\ [][NextRestart]_vars

(* ----------------------- the transcoder on its own ----------------------- *)
\* a telephony payload, a sequence of 8 kHz samples, or the samples of an
\* audio delta
AudioInit ==
    /\ CallInit /\ hasApiKey
    /\ IsoIdle
    /\ mulaw = <<>>
    /\ \/ /\ origin = "mulawBuffer"
          /\ mulawBuffer \in InputFrames
          /\ pcm8k = <<>> /\ pcm24k = <<>>
       \/ /\ origin = "pcm8k"
          /\ pcm8k \in SampleSeqs
          /\ mulawBuffer = <<>> /\ pcm24k = <<>>
       \/ /\ origin = "pcm24k"
          /\ pcm24k \in SampleSeqs
          /\ mulawBuffer = <<>> /\ pcm8k = <<>>
    /\ stage = origin

\* convertMulawToPcm24k(mulawBuffer)
ConvertIn ==
    /\ stage = "mulawBuffer"
    /\ pcm8k' = decodeBuffer(mulawBuffer)
    /\ pcm24k' = convertMulawToPcm24k(mulawBuffer)
    /\ stage' = "pcm24k"
    /\ UNCHANGED <<callVars, isoVars, origin, mulawBuffer, mulaw>>

\* resample8kTo24k(pcm8k)
Resample ==
    /\ stage = "pcm8k"
    /\ pcm24k' = resample8kTo24k(pcm8k)
    /\ stage' = "pcm24k"
    /\ UNCHANGED <<callVars, isoVars, origin, mulawBuffer, pcm8k, mulaw>>

\* convertPcm24kToMulaw(pcm24k)
ConvertOut ==
    /\ stage = "pcm24k"
    /\ mulaw' = convertPcm24kToMulaw(pcm24k)
    /\ stage' = "mulaw"
    /\ UNCHANGED <<callVars, isoVars, origin, mulawBuffer, pcm8k, pcm24k>>

AudioNext == ConvertIn \/ Resample \/ ConvertOut

SpecAudio == AudioInit /\ [][AudioNext]_vars

(* ---------------------- two connections side by side --------------------- *)
\* both connections have handled their start frame and their speech sockets
\* are open
IsoInit ==
    /\ CallInit /\ hasApiKey
    /\ AudioIdle
    /\ closures = [s \in Sessions |-> IsoStarted(s)]
    /\ alone = [s \in Sessions |-> IsoStarted(s)]
    /\ isoEvents = 0

\* connection s handles a media frame
IsoMedia(s, n, fail) ==
    /\ isoEvents < MaxIsoEvents
    /\ closures' = [closures EXCEPT ![closureOf(s)] = isoMedia(closures[closureOf(s)], n, fail)]
    /\ alone' = [alone EXCEPT ![s] = isoMedia(alone[s], n, fail)]
    /\ isoEvents' = isoEvents + 1
    /\ UNCHANGED <<callVars, audioVars>>

\* the speech socket of connection s delivers a VAD signal
IsoSignal(s, type) ==
    /\ isoEvents < MaxIsoEvents
    /\ closures' = [closures EXCEPT ![closureOf(s)] = isoSignal(closures[closureOf(s)], type)]
    /\ alone' = [alone EXCEPT ![s] = isoSignal(alone[s], type)]
    /\ isoEvents' = isoEvents + 1
    /\ UNCHANGED <<callVars, audioVars>>

\* the speech socket of connection s delivers an audio delta
IsoDelta(s, n) ==
    /\ isoEvents < MaxIsoEvents
    /\ closures' = [closures EXCEPT ![closureOf(s)] = isoDelta(closures[closureOf(s)], n)]
    /\ alone' = [alone EXCEPT ![s] = isoDelta(alone[s], n)]
    /\ isoEvents' = isoEvents + 1
    /\ UNCHANGED <<callVars, audioVars>>

IsoNext ==
    \/ \E s \in Sessions, n \in PayloadLens, fail \in BOOLEAN : IsoMedia(s, n, fail)
    \/ \E s \in Sessions, type \in OpenaiTypes \ {"delta"} : IsoSignal(s, type)
    \/ \E s \in Sessions, n \in DeltaLens : IsoDelta(s, n)

SpecIso == IsoInit /\ [][IsoNext]_vars

(* ======================= properties of the session ====================== *)
MediaInputs == {i \in [present : BOOLEAN, n : PayloadLens, fail : BOOLEAN] :
                    i.present \/ i.n = 0}

\* the step is a run of the media handler, the only one that counts a frame
IsMediaStep == mediaCount' # mediaCount

\* the step is the media handler run on input i
MediaStep(i) == IsMediaStep /\ Media(i.present, i.n, i.fail)

\* the step is the handler of a speech-endpoint message of this type
SignalStep(type) == \E c \in ConnIds : OpenaiSignal(c, type)

\* the step sends input_audio_buffer.commit
CommitStep == \E i \in MediaInputs : mediaCommits(i.present, i.n) /\ MediaStep(i)

\* C1: a commit is sent only by a media step that starts with pendingCommit
\* true and brings appendedBytes, the frame's transcoded length added, to at
\* least 7200, and that step leaves appendedBytes = 0 and pendingCommit false;
\* a media step with pendingCommit true that stays below 7200 sends no commit
\* and leaves pendingCommit true.
C1_CommitOnlyAtThreshold ==
    [][\A i \in MediaInputs : MediaStep(i) =>
          LET total == appendedBytes + Pcm24kByteLength(i.n) IN
          /\ mediaCommits(i.present, i.n) =>
                /\ pendingCommit
                /\ total >= CommitThreshold
                /\ appendedBytes' = 0
                /\ ~pendingCommit'
          /\ (pendingCommit /\ total < CommitThreshold) =>
                /\ ~mediaCommits(i.present, i.n)
                /\ pendingCommit']_vars

\* a frame was counted after speech_stopped, the count is still below the
\* threshold and the commit is still pending
C1_Witness ==
    /\ scen.phase = "B0"
    /\ pendingCommit
    /\ appendedBytes > 0
    /\ appendedBytes < CommitThreshold

\* C2: in the scenario speech_started, audio units, speech_stopped, audio
\* units (speech socket open, no other speech-endpoint signal) a commit is
\* sent exactly at the first audio unit after speech_stopped that brings the
\* bytes counted since speech_started to 7200; from then on appendedBytes = 0
\* and pendingCommit is false, and no later audio unit sends a commit.
C2_OneCommitPerUtterance ==
    [][\A i \in MediaInputs :
          (MediaStep(i) /\ scen.phase # "none" /\ scen'.phase # "none") =>
             /\ mediaCommits(i.present, i.n) <=>
                   /\ i.present
                   /\ scen.phase = "B0"
                   /\ scen.bytes + Pcm24kByteLength(i.n) >= CommitThreshold
             /\ scen'.phase = "B1" => (appendedBytes' = 0 /\ ~pendingCommit')]_vars

\* the commit of the scenario has been sent
C2_Witness ==
    /\ scen.phase = "B1"
    /\ scen.bytes = CommitThreshold
    /\ appendedBytes = 0
    /\ ~pendingCommit

\* C3: appendedBytes is 0 after the steps that handle speech_started or
\* committed or that send a commit; in every other step it does not decrease:
\* a media step grows it by the transcoded length of the unit when the speech
\* socket is open and speechActive or pendingCommit holds, and leaves it
\* unchanged when both flags are false.
C3_AppendedBytesResets ==
    [][LET reset == IF IsMediaStep
                    THEN CommitStep
                    ELSE SignalStep("speech_started") \/ SignalStep("committed")
       IN /\ appendedBytes' # 0 => ~reset
          /\ appendedBytes' < appendedBytes => reset
          /\ \A i \in MediaInputs :
                LET grown == IF OpenaiIsOpen /\ i.present /\ (speechActive \/ pendingCommit)
                             THEN appendedBytes + Pcm24kByteLength(i.n)
                             ELSE appendedBytes
                IN \* a step that leaves another count is no media step on i
                   (~mediaCommits(i.present, i.n) /\ appendedBytes' # grown)
                      => ~MediaStep(i)]_vars

\* audio has been counted during speech
C3_Witness == speechActive /\ appendedBytes >= CommitThreshold

\* C4: pendingCommit is false initially, turns true only in a step that
\* handles speech_stopped, and is false after every step that handles
\* speech_started or committed or that sends a commit.
C4_PendingOnlyAfterStop ==
    /\ ~pendingCommit
    /\ [][/\ (pendingCommit' /\ ~pendingCommit) => SignalStep("speech_stopped")
          /\ pendingCommit' =>
                ~(SignalStep("speech_started") \/ SignalStep("committed") \/ CommitStep)]_vars

\* speech_stopped has been handled and no media frame since
C4_Witness == pendingCommit /\ ~speechActive /\ mediaCount = 0

(* ======================== properties of the pacer ======================= *)
\* the frames are consecutive pieces of the enqueued stream, from byte `next` on
RECURSIVE Contiguous(_, _)
Contiguous(frames, next) ==
    \/ frames = <<>>
    \/ /\ Head(frames).start = next
       /\ Contiguous(Tail(frames), next + Head(frames).len)

\* the step takes a frame off the queue: the head chunk is removed, or it
\* loses its first bytes, and the other chunks are untouched
Dequeues ==
    /\ outboundQueue # <<>>
    /\ \/ outboundQueue' = Tail(outboundQueue)
       \/ /\ outboundQueue' # <<>>
          /\ Tail(outboundQueue') = Tail(outboundQueue)
          /\ Head(outboundQueue').len < Head(outboundQueue).len
          /\ Head(outboundQueue').len > 0
          /\ Head(outboundQueue').start + Head(outboundQueue').len
                = Head(outboundQueue).start + Head(outboundQueue).len

\* the step puts one chunk at the end of the queue
Enqueues ==
    /\ Len(outboundQueue') = Len(outboundQueue) + 1
    /\ SubSeq(outboundQueue', 1, Len(outboundQueue)) = outboundQueue

\* C5: outboundQueuedBytes is the sum of the lengths of the queued chunks
\* and is never negative, whether or not a send failed; a step leaves the
\* queue alone, appends a chunk, or takes a frame off the head chunk.
C5_QueuedBytesIsSum ==
    /\ [](outboundQueuedBytes = SumLen(outboundQueue) /\ outboundQueuedBytes >= 0)
    /\ [][outboundQueue' = outboundQueue \/ Enqueues \/ Dequeues]_vars

\* a drain whose send failed has shortened the head chunk
C5_Witness ==
    /\ outboundQueue # <<>>
    /\ Head(outboundQueue).start = frameSize
    /\ twilioSent = <<>>
    /\ outboundQueuedBytes > 0

\* C6 (as claimed): the frames sent to the telephony side, in send order,
\* make up a prefix of the enqueued bytes.
C6_SentIsPrefixOfEnqueued ==
    /\ Contiguous(twilioSent, 0)
    /\ SumLen(twilioSent) <= enqueuedBytes

\* C7 (as claimed): with N bytes queued, a stream identifier and no send
\* failure, one drain per tick empties the queue in ceil(N/160) ticks with
\* every frame but the last 160 bytes long.  For the first of these ticks
\* this says: the frame is 160 bytes when N > 160 (it is not the last) and
\* N bytes otherwise (one tick, the last frame).
C7_DrainTakesCeilTicks ==
    [][\A i \in MediaInputs :
          (/\ MediaStep(i)
           /\ ~i.fail
           /\ twilioStreamSid # ""
           /\ outboundQueue # <<>>) =>
             /\ Len(twilioSent') = Len(twilioSent) + 1
             /\ twilioSent'[Len(twilioSent')].len = Min(outboundQueuedBytes, frameSize)
             /\ CeilDiv(outboundQueuedBytes', frameSize)
                   = CeilDiv(outboundQueuedBytes, frameSize) - 1]_vars

\* C8: a media step drains once, forwarded or not: it sends exactly one
\* frame when the queue is not empty, the stream identifier is set and the
\* send succeeds, and never more than one; no other step sends a frame or
\* takes one off the queue; the frames sent never outnumber the media frames
\* received.
C8_OneDrainPerMediaFrame ==
    /\ [](Len(twilioSent) <= mediaCount)
    /\ [][/\ IsMediaStep =>
                /\ Len(twilioSent') <= Len(twilioSent) + 1
                /\ outboundQueuedBytes - outboundQueuedBytes' <= frameSize
          /\ \A i \in MediaInputs :
                (MediaStep(i) /\ ~i.fail /\ twilioStreamSid # "" /\ outboundQueue # <<>>)
                   => (Len(twilioSent') = Len(twilioSent) + 1 /\ Dequeues)
          /\ ~IsMediaStep => (twilioSent' = twilioSent /\ ~Dequeues)]_vars

\* two media frames were received during speech, neither added to
\* appendedBytes (no audio was forwarded), and each sent one frame
C8_Witness ==
    /\ Len(twilioSent) = 2
    /\ mediaCount = 2
    /\ speechActive
    /\ appendedBytes = 0

\* C9 (as claimed): when the send of a drain fails, the bytes of that frame
\* are still at the head of the queue and still counted.
C9_FailedFrameStaysQueued ==
    [][\A i \in MediaInputs :
          (/\ MediaStep(i)
           /\ i.fail
           /\ twilioStreamSid # ""
           /\ outboundQueue # <<>>) =>
             /\ outboundQueue' # <<>>
             /\ Head(outboundQueue').start = Head(outboundQueue).start
             /\ outboundQueuedBytes' = outboundQueuedBytes]_vars

\* C10 (as claimed): once a stop frame or the socket closure was handled,
\* the queued audio is discarded: no later step sends a frame to the
\* telephony side.
C10_NothingSentAfterStop == [][stopped => twilioSent' = twilioSent]_vars

(* ================== a media frame without a speech socket =============== *)
\* C11: a media step taken while the speech socket is absent or not open
\* sends no append and no commit, leaves speechActive, pendingCommit and
\* appendedBytes unchanged and stores nothing (of the session's variables only
\* mediaCount and the outbound queue change); the session goes on, and the
\* step still runs its drain: it sends one frame when the queue is not
\* empty, the stream identifier is set and the send succeeds.
C11_DroppedWhenNotOpen ==
    [][(IsMediaStep /\ ~OpenaiIsOpen) => \A i \in MediaInputs : MediaStep(i) =>
          LET d == mediaDrain(i.fail) IN
          /\ ~mediaAppends(i.present, i.n)
          /\ ~mediaCommits(i.present, i.n)
          /\ UNCHANGED <<speechActive, pendingCommit, appendedBytes>>
          /\ UNCHANGED <<openaiWs, conns, twilioStreamSid, enqueuedBytes, chunkCount>>
          /\ ~crashed' /\ wsOpen'
          /\ outboundQueue' = d.queue
          /\ twilioSent' = twilioSent \o d.frames
          /\ (~i.fail /\ twilioStreamSid # "" /\ outboundQueue # <<>>) =>
                Len(twilioSent') = Len(twilioSent) + 1]_vars

\* the only media frame arrived during speech after the speech socket had
\* closed: nothing was counted, and its drain sent a frame
C11_Witness ==
    /\ openaiWs # 0
    /\ conns[openaiWs] = "CLOSED"
    /\ speechActive
    /\ appendedBytes = 0
    /\ mediaCount = 1
    /\ Len(twilioSent) = 1

(* ========================= two concurrent sessions ====================== *)
\* the step is an event of connection s
IsoEventOf(s) ==
    \/ \E n \in PayloadLens, fail \in BOOLEAN : IsoMedia(s, n, fail)
    \/ \E type \in OpenaiTypes \ {"delta"} : IsoSignal(s, type)
    \/ \E n \in DeltaLens : IsoDelta(s, n)

C13_OddDeltaRejected ==
    [][\A c \in ConnIds, n \in DeltaLens :
          (OpenaiDelta(c, n) /\ n % 2 = 1) =>
             UNCHANGED <<outboundQueue, outboundQueuedBytes>>]_vars

\* C14 (as claimed): the silence frame, 160 bytes 0xFF, converted to 24 kHz
\* samples and back, gives 160 bytes that each decode to the sample 0.
C14_SilenceRoundTrip ==
    (origin = "mulawBuffer" /\ mulawBuffer = SilenceFrame /\ stage = "mulaw") =>
        /\ Len(mulaw) = frameSize
        /\ \A k \in 1..Len(mulaw) : MULAW_DECODE_TABLE[mulaw[k]] = 0

\* byte e is within one quantization step of byte b: same sign bit, same
\* exponent segment, mantissas at most one apart
WithinQuantizationStep(b, e) ==
    /\ Bit(e, 7) = Bit(b, 7)
    /\ Shr(e, 4) % 8 = Shr(b, 4) % 8
    /\ (e % 16) - (b % 16) \in {-1, 0, 1}

\* C15 (as claimed): every byte b of a payload encodes back, from the sample
\* it decodes to, to a byte within one quantization step of b.
C15_CodecRoundTrip ==
    (origin = "mulawBuffer" /\ stage = "mulaw") =>
        \A k \in 1..Len(mulawBuffer) :
            WithinQuantizationStep(mulawBuffer[k],
                                   encodeSample(MULAW_DECODE_TABLE[mulawBuffer[k]]))

C17_FrameFromHeadChunk ==
    [][\A i \in MediaInputs :
          (/\ MediaStep(i)
           /\ ~i.fail
           /\ twilioStreamSid # ""
           /\ outboundQueue # <<>>) =>
             LET head == Head(outboundQueue)
                 k == Min(head.len, frameSize)
             IN /\ twilioSent' = Append(twilioSent, [start |-> head.start, len |-> k])
                /\ outboundQueue' =
                      IF head.len <= frameSize
                      THEN Tail(outboundQueue)
                      ELSE <<[start |-> head.start + frameSize,
                              len |-> head.len - frameSize]>> \o Tail(outboundQueue)
                /\ outboundQueuedBytes' = outboundQueuedBytes - k]_vars

\* a head chunk shorter than a frame was sent as it was while the next
\* chunk stayed queued
C17_Witness ==
    /\ Len(twilioSent) = 1
    /\ twilioSent[1].len < frameSize
    /\ outboundQueue # <<>>
    /\ Head(outboundQueue).start = twilioSent[1].len

(* ============================ the VAD states ============================ *)
\* C18: speechActive and pendingCommit are never both true, and when both
\* are false appendedBytes is 0.
C18_ThreeVadStates ==
    /\ ~(speechActive /\ pendingCommit)
    /\ (~speechActive /\ ~pendingCommit) => appendedBytes = 0

\* speech has stopped with a full count: the commit is due at the next frame
C18_Witness ==
    /\ pendingCommit
    /\ ~speechActive
    /\ appendedBytes >= CommitThreshold

\* C19 (as claimed): a speech_stopped that was handled is answered by a commit
\* as long as audio keeps arriving, the speech socket stays open and no
\* speech_started is handled.  A commit is sent only by a media step that
\* starts with pendingCommit true, and pendingCommit turns true only on
\* speech_stopped; so the claim needs pendingCommit, once speech_stopped has
\* set it, to stay true until the commit is sent, unless speech_started is
\* handled or the socket is no longer open.
C19_StoppedIsAnswered ==
    [][(/\ pendingCommit /\ ~pendingCommit'
        /\ wsOpen' /\ ~crashed'
        /\ OpenaiIsOpen
        /\ openaiWs' = openaiWs /\ conns' = conns) =>
          (CommitStep \/ SignalStep("speech_started"))]_vars

(* ==================== the session's speech sockets ====================== *)
\* the sockets that can still deliver messages to the session's handlers
Live == {c \in Created : conns[c] \in {"CONNECTING", "OPEN"}}

\* C20 (as claimed): at most one speech socket is live at any time, the one
\* openaiWs refers to; a message of a socket the session no longer refers to
\* changes neither the VAD state nor the outbound queue; after a stop frame
\* or the closure of the telephony socket no socket of the session is live.
C20_OneLiveSpeechSocket ==
    /\ [](Live \subseteq {openaiWs})
    /\ [][/\ \A c \in ConnIds \ {openaiWs} :
                ((\E type \in OpenaiTypes \ {"delta"} : OpenaiSignal(c, type))
                    \/ (\E n \in DeltaLens : OpenaiDelta(c, n)))
                => UNCHANGED <<speechActive, pendingCommit, appendedBytes,
                               outboundQueue, outboundQueuedBytes>>
          /\ (Stop \/ WsClose) =>
                \A c \in ConnIds : conns'[c] \notin {"CONNECTING", "OPEN"}]_vars

=============================================================================
